---- MODULE Spec2Model ----
(***************************************************************************)
(* ARLC: symbol-wise LWE public-key encryption (src/arlc.py) and the       *)
(* keygen / encrypt / decrypt flow of its driver (src/driver.py).          *)
(*                                                                         *)
(* Vectors are sequences, the matrix A is a sequence of m rows of length   *)
(* n.  A message is the sequence of the code points of its characters.     *)
(* Python's % with a positive modulus and TLA+'s % agree (both give the    *)
(* least non-negative residue), and // on non-negative operands is \div.   *)
(***************************************************************************)
EXTENDS Integers, Sequences, FiniteSets

VARIABLES
    arlc,        \* <<>> before construction, else <<[params, A]>>: the live ARLC instance
    keypair,     \* <<>> or <<[s, e, b]>>: the keypair generate_keypair returned (e is its local)
    pyRandom,    \* state of the process-wide `random` module: samples drawn since random.seed(42)
    usedStates,  \* history: the states of `random` from which some sparse r was drawn so far
    enc,         \* outcome of the latest encrypt call under the current keypair
    dec,         \* outcome of the latest decrypt call under the current keypair
    codec        \* the encode/decode probe of the second specification

vars == <<arlc, keypair, pyRandom, usedStates, enc, dec, codec>>

----------------------------------------------------------------------------
(* Bounds of the model *)

MaxLen == 2        \* longest message handed to encrypt
MaxDraws == 2      \* cap on the samples drawn from `random` between two seedings

----------------------------------------------------------------------------
(* Parameters: ARLCParams, src/arlc.py:7-16.  The dataclass has no         *)
(* __post_init__: any tuple of integers constructs.                         *)

ARLCParams(n, m, q, eta, p, delta, r_weight) ==
    [n |-> n, m |-> m, q |-> q, eta |-> eta, p |-> p, delta |-> delta,
     r_weight |-> r_weight]

\* The parameter invariants the specification states (q = delta*p,
\* 0 < r_weight <= m, r_weight*eta < delta/2).
ValidParams(P) ==
    /\ P.q = P.delta * P.p
    /\ 0 < P.r_weight
    /\ P.r_weight <= P.m
    /\ 2 * P.r_weight * P.eta < P.delta

\* Parameter tuples handed to the constructor: the default q, eta, p, delta
\* with the dimensions scaled down, valid and invalid.
ParamSet ==
    { ARLCParams(2, 2, 32768, 4, 256, 128, 1),     \* valid: noise <= 4 < 64
      ARLCParams(2, 3, 32768, 4, 256, 128, 2),     \* valid: noise <= 8 < 64
      ARLCParams(2, 2, 32768, 70, 256, 128, 1),    \* r_weight*eta = 70 >= delta/2
      ARLCParams(2, 2, 32768, 4, 256, 128, 64),    \* the default r_weight, > m
      ARLCParams(2, 2, 32000, 4, 256, 128, 1) }    \* q # delta*p

----------------------------------------------------------------------------
(* numpy helpers *)

RECURSIVE DotUpTo(_, _, _)
DotUpTo(u, v, k) == IF k = 0 THEN 0 ELSE u[k] * v[k] + DotUpTo(u, v, k - 1)

\* np.dot of two vectors
dot(u, v) == DotUpTo(u, v, Len(u))

\* np.dot(A, s): matrix (m, n) times vector (n,)
MatVec(A, s) == [i \in 1..Len(A) |-> dot(A[i], s)]

\* A.T for A of shape (m, n)
Transpose(A, n) == [j \in 1..n |-> [i \in 1..Len(A) |-> A[i][j]]]

\* element-wise v % q
VecMod(v, q) == [i \in 1..Len(v) |-> v[i] % q]

\* element-wise u + v
VecAdd(u, v) == [i \in 1..Len(u) |-> u[i] + v[i]]

Abs(x) == IF x < 0 THEN -x ELSE x

\* faulty variant: truncation in place of rounding
PyRoundTruncates(num, den) == num \div den

\* Python's round(num / den) for num >= 0, den > 0: nearest, ties to even
PyRound(num, den) ==
    LET quo == num \div den
        rem == num % den
    IN  IF 2 * rem < den THEN quo
        ELSE IF 2 * rem > den THEN quo + 1
        ELSE IF quo % 2 = 0 THEN quo ELSE quo + 1

\* str.isprintable() of chr(c), for c < 256
IsPrintable(c) ==
    \/ 32 <= c /\ c <= 126
    \/ 161 <= c /\ c <= 172
    \/ 174 <= c /\ c <= 255

----------------------------------------------------------------------------
(* Values the random draws range over *)

\* the vector (first, rest, ..., rest) of length n
ConstVec(n, first, rest) == [j \in 1..n |-> IF j = 1 THEN first ELSE rest]

\* np.random.randint(0, q, (m, n)): two sample matrices, neither symmetric,
\* with entries at both ends of [0, q)
PublicMatrices(P) ==
    { [i \in 1..P.m |-> ConstVec(P.n, i, P.q - i)],
      [i \in 1..P.m |-> ConstVec(P.n, P.q - 1, i - 1)] }

\* np.random.randint(-eta, eta + 1, size): sample vectors holding the
\* extremes -eta and eta and 0
ErrorVectors(P, size) ==
    { ConstVec(size, -P.eta, P.eta), ConstVec(size, P.eta, 0) }

\* binary vectors of length m with exactly k ones
RECURSIVE Weight(_, _)
Weight(r, k) == IF k = 0 THEN 0 ELSE r[k] + Weight(r, k - 1)

SparseVectors(m, k) == {r \in [1..m -> {0, 1}] : Weight(r, m) = k}

----------------------------------------------------------------------------
(* ARLC._generate_error, src/arlc.py:29-33: the vectors it can return *)

generate_error(P, size) == ErrorVectors(P, size)

(* ARLC.generate_keypair, src/arlc.py:35-46, for the drawn s and e.  The   *)
(* record keeps e, which the code drops on return.                          *)
generate_keypair_noError(P, A, s, e) ==
    [s |-> s, e |-> e, b |-> VecMod(MatVec(A, s), P.q)]    \* faulty variant: b = A*s

generate_keypair(P, A, s, e) ==
    [s |-> s, e |-> e, b |-> VecMod(VecAdd(MatVec(A, s), e), P.q)]

(* ARLC._encode_message_symbol, src/arlc.py:48-55 *)
encode_raises_offByOne(P, m) == ~(0 <= m /\ m <= P.p)    \* faulty variant: accepts p

encode_raises(P, m) == ~(0 <= m /\ m < P.p)

encode_message_symbol(P, m) == ((m + P.p \div 2) * P.delta) % P.q

(* ARLC._decode_message_symbol, src/arlc.py:57-79, with the branches taken *)
AltValueBelow(P, m_rec) == m_rec - P.p    \* faulty variant: the other value one period down

AltValue(P, m_rec) == (m_rec + P.p) % P.p

DecodeSteps(P, m_scaled0) ==
    LET m_scaled == m_scaled0 % P.q
        m_approx == PyRound(m_scaled, P.delta) - (P.p \div 2)
        m_rec    == m_approx % P.p
        entered  == Abs(m_approx - m_rec) > P.delta \div 4
        alt_m    == AltValue(P, m_rec)
        replaced == entered /\ Abs(m_approx - alt_m) < Abs(m_approx - m_rec)
    IN  [m_approx |-> m_approx,
         entered  |-> entered,
         replaced |-> replaced,
         m_rec    |-> IF replaced THEN alt_m ELSE m_rec]

decode_message_symbol(P, m_scaled) == DecodeSteps(P, m_scaled).m_rec

(* ARLC._generate_sparse_r, src/arlc.py:81-88: the outcomes of one call.   *)
(* random.sample raises ValueError when r_weight > m or r_weight < 0 and   *)
(* then leaves the generator untouched.                                     *)
generate_sparse_r(P) ==
    IF 0 <= P.r_weight /\ P.r_weight <= P.m
    THEN {[raised |-> FALSE, r |-> v] : v \in SparseVectors(P.m, P.r_weight)}
    ELSE {[raised |-> TRUE, r |-> <<>>]}

(* One symbol ciphertext, src/arlc.py:113-114 *)
SymbolCiphertext(P, A, b, m_scaled, r) ==
    [U |-> VecMod(MatVec(Transpose(A, P.n), r), P.q),
     V |-> (dot(r, b) + m_scaled) % P.q]

(* The loop of ARLC.encrypt, src/arlc.py:104-122, from symbol i on; draws  *)
(* holds the outcome of the sampler for each symbol.  An exception leaves   *)
(* the loop with the local list dropped; drawn counts the samples taken.    *)
RECURSIVE EncryptLoop(_, _, _, _, _, _, _)
EncryptLoop(P, A, b, message, draws, i, ciphertext) ==
    IF i > Len(message)
    THEN [status |-> "ok", ciphertext |-> ciphertext, drawn |-> i - 1]
    ELSE IF encode_raises(P, message[i])
    THEN [status |-> "error", ciphertext |-> <<>>, drawn |-> i - 1]
    ELSE IF draws[i].raised
    THEN [status |-> "error", ciphertext |-> <<>>, drawn |-> i - 1]
    ELSE LET c == SymbolCiphertext(P, A, b,
                      encode_message_symbol(P, message[i]), draws[i].r)
         IN  IF (\E j \in 1..Len(c.U) : c.U[j] >= P.q) \/ c.V >= P.q
             THEN [status |-> "error", ciphertext |-> <<>>, drawn |-> i]
             ELSE EncryptLoop(P, A, b, message, draws, i + 1,
                              Append(ciphertext, c))

encrypt(P, A, b, message, draws) == EncryptLoop(P, A, b, message, draws, 1, <<>>)

(* The character decrypt appends for a decoded symbol, src/arlc.py:153-160 *)
QuestionMark == 63

ToChar(m_rec) == IF IsPrintable(m_rec) THEN m_rec ELSE QuestionMark

(* The value decrypt hands to the decoder, src/arlc.py:144-147 *)
RecoverScaledAdds(P, c, secret_key) ==    \* faulty variant: adds the product
    (c.V + (dot(c.U, secret_key) % P.q)) % P.q

RecoverScaled(P, c, secret_key) == (c.V - (dot(c.U, secret_key) % P.q)) % P.q

(* The validation of one pair, src/arlc.py:140 *)
InvalidPair(P, c) == (\E j \in 1..Len(c.U) : c.U[j] >= P.q) \/ c.V >= P.q

(* The loop of ARLC.decrypt, src/arlc.py:136-162 *)
RECURSIVE DecryptLoop(_, _, _, _, _, _)
DecryptLoop(P, ciphertext, secret_key, i, message_chars, handed) ==
    IF i > Len(ciphertext)
    THEN [status |-> "ok", output |-> message_chars, handed |-> handed]
    ELSE IF InvalidPair(P, ciphertext[i])
    THEN [status |-> "error", output |-> <<>>, handed |-> handed]
    ELSE LET m_scaled == RecoverScaled(P, ciphertext[i], secret_key)
             m_rec    == decode_message_symbol(P, m_scaled)
         IN  DecryptLoop(P, ciphertext, secret_key, i + 1,
                         Append(message_chars, ToChar(m_rec)),
                         Append(handed, m_scaled))

\* faulty variant: the loop starts at the second pair
decrypt_skipsFirst(P, ciphertext, secret_key) ==
    DecryptLoop(P, ciphertext, secret_key, 2, <<>>, <<>>)

decrypt(P, ciphertext, secret_key) ==
    DecryptLoop(P, ciphertext, secret_key, 1, <<>>, <<>>)

----------------------------------------------------------------------------
(* Inputs *)

\* code points of the characters of a message: 'A', 'e-acute', '\n' and
\* U+0100, the first one outside [0, 256)
Symbols == <<65, 233, 10, 256>>

\* the messages: every window of at most MaxLen characters of the cycle
\* A e-acute \n U+0100 A e-acute ...
Messages ==
    { [i \in 1..len |-> Symbols[((start + i - 2) % Len(Symbols)) + 1]] :
        start \in 1..Len(Symbols), len \in 0..MaxLen }

\* pairs a caller can append to a ciphertext: a component below 0 or at q
ForgedPairs(P) ==
    { [U |-> ConstVec(P.n, 0, 0), V |-> -1],
      [U |-> ConstVec(P.n, -1, 0), V |-> 0],
      [U |-> ConstVec(P.n, 0, 0), V |-> P.q],
      [U |-> ConstVec(P.n, P.q, 0), V |-> 0] }

NoEnc == [status |-> "none", plaintext |-> <<>>, ciphertext |-> <<>>, rs |-> <<>>]
NoDec == [status |-> "none", input |-> <<>>, output |-> <<>>, handed |-> <<>>]
NoCodec == [pc |-> "off"]

----------------------------------------------------------------------------
(* The process: constructions, key generations, encryptions, decryptions *)

Init ==
    /\ arlc = <<>>
    /\ keypair = <<>>
    /\ pyRandom = 0
    /\ usedStates = {}
    /\ enc = NoEnc
    /\ dec = NoDec
    /\ codec = NoCodec

(* ARLC.__init__, src/arlc.py:21-27: keeps the parameters unchecked,       *)
(* re-seeds both generators and draws A.                                    *)
Construct ==
    \E P \in ParamSet :
    \E A \in PublicMatrices(P) :
        /\ arlc' = <<[params |-> P, A |-> A]>>
        /\ pyRandom' = 0
        /\ keypair' = <<>>
        /\ enc' = NoEnc
        /\ dec' = NoDec
        /\ UNCHANGED <<usedStates, codec>>

(* test_message, src/driver.py:41: a keypair of the live instance *)
Keygen ==
    /\ arlc # <<>>
    /\ LET P == arlc[1].params
           A == arlc[1].A
       IN  \E s \in generate_error(P, P.n), e \in generate_error(P, P.m) :
               keypair' = <<generate_keypair(P, A, s, e)>>
    /\ enc' = NoEnc
    /\ dec' = NoDec
    /\ UNCHANGED <<arlc, pyRandom, usedStates, codec>>

(* test_message, src/driver.py:46: encrypt a message under the public key *)
Encrypt ==
    /\ arlc # <<>>
    /\ keypair # <<>>
    /\ LET P == arlc[1].params
           A == arlc[1].A
           b == keypair[1].b
       IN  \E message \in Messages :
           \E draws \in [1..Len(message) -> generate_sparse_r(P)] :
           \E res \in {encrypt(P, A, b, message, draws)} :
                   /\ pyRandom + res.drawn <= MaxDraws
                   /\ enc' = [status     |-> res.status,
                              plaintext  |-> message,
                              ciphertext |-> res.ciphertext,
                              rs         |-> [k \in 1..res.drawn |-> draws[k].r]]
                   /\ pyRandom' = pyRandom + res.drawn
                   /\ usedStates' = usedStates \cup (pyRandom..(pyRandom + res.drawn - 1))
    /\ dec' = NoDec
    /\ UNCHANGED <<arlc, keypair, codec>>

(* test_message, src/driver.py:51: decrypt with the secret key; the input  *)
(* is the ciphertext encrypt returned, possibly followed by a forged pair.  *)
Decrypt ==
    /\ arlc # <<>>
    /\ keypair # <<>>
    /\ LET P == arlc[1].params
       IN  \E input \in {enc.ciphertext} \cup
                        {Append(enc.ciphertext, f) : f \in ForgedPairs(P)} :
           \E res \in {decrypt(P, input, keypair[1].s)} :
                   dec' = [status |-> res.status,
                           input  |-> input,
                           output |-> res.output,
                           handed |-> res.handed]
    /\ UNCHANGED <<arlc, keypair, pyRandom, usedStates, enc, codec>>

Next == Construct \/ Keygen \/ Encrypt \/ Decrypt

Spec == Init /\ [][Next]_vars

----------------------------------------------------------------------------
(* The encoder and decoder alone: a symbol is encoded, noise is added      *)
(* modulo q as decrypt's subtraction leaves it, and the sum is decoded.    *)

\* The defaults of ARLCParams, and small tuples: p odd, delta odd,
\* p <= delta // 4, and q # delta*p
CodecParams ==
    { ARLCParams(256, 512, 32768, 4, 256, 128, 64),
      ARLCParams(2, 2, 80, 1, 5, 16, 2),
      ARLCParams(2, 2, 15, 1, 5, 3, 1),
      ARLCParams(2, 2, 64, 1, 2, 32, 2),
      ARLCParams(2, 2, 30, 1, 4, 8, 1) }

InitCodec ==
    /\ arlc = <<>>
    /\ keypair = <<>>
    /\ pyRandom = 0
    /\ usedStates = {}
    /\ enc = NoEnc
    /\ dec = NoDec
    /\ \E P \in CodecParams :
       \E m \in (-1)..P.p :
       \E noise \in (-((P.delta + 1) \div 2))..((P.delta + 1) \div 2) :
           codec = [pc |-> "start", P |-> P, m |-> m, noise |-> noise]

EncodeStep ==
    /\ codec.pc = "start"
    /\ codec' = IF encode_raises(codec.P, codec.m)
                THEN [codec EXCEPT !.pc = "raised"]
                ELSE [pc |-> "encoded", P |-> codec.P, m |-> codec.m,
                      noise |-> codec.noise,
                      scaled |-> encode_message_symbol(codec.P, codec.m)]
    /\ UNCHANGED <<arlc, keypair, pyRandom, usedStates, enc, dec>>

DecodeStep ==
    /\ codec.pc = "encoded"
    /\ codec' = [pc |-> "decoded", P |-> codec.P, m |-> codec.m,
                 noise |-> codec.noise, scaled |-> codec.scaled,
                 steps |-> DecodeSteps(codec.P,
                               (codec.scaled + codec.noise) % codec.P.q)]
    /\ UNCHANGED <<arlc, keypair, pyRandom, usedStates, enc, dec>>

NextCodec == EncodeStep \/ DecodeStep

SpecCodec == InitCodec /\ [][NextCodec]_vars

----------------------------------------------------------------------------
(* Properties *)

WithinBudget(P, noise) == 2 * Abs(noise) < P.delta

Decoded == codec.pc = "decoded"

\* the latest decrypt call was given exactly what the latest encrypt call returned
RoundTripDone ==
    /\ enc.status = "ok"
    /\ dec.status = "ok"
    /\ dec.input = enc.ciphertext

InRange(P, message) == \A i \in 1..Len(message) : 0 <= message[i] /\ message[i] < P.p

AllPrintable(message) == \A i \in 1..Len(message) : IsPrintable(message[i])

OutsideRing(P, c) ==
    \/ c.V < 0 \/ c.V >= P.q
    \/ \E j \in 1..Len(c.U) : c.U[j] < 0 \/ c.U[j] >= P.q

(* C1: under valid parameters, decrypt(encrypt(plaintext, pk), sk) is the  *)
(* plaintext for every sequence of symbols in [0, p).                       *)
C1_RoundTrip ==
    (/\ RoundTripDone
     /\ ValidParams(arlc[1].params)
     /\ InRange(arlc[1].params, enc.plaintext))
        => dec.output = enc.plaintext

(* C2: with q = delta*p, a symbol of [0, p) encoded, shifted by a noise of *)
(* absolute value below delta/2 and reduced modulo q decodes to itself.     *)
C2_NoiseTolerantDecoding ==
    (/\ Decoded
     /\ codec.P.q = codec.P.delta * codec.P.p
     /\ WithinBudget(codec.P, codec.noise))
        => codec.steps.m_rec = codec.m

\* a negative noise took the encoding 0 below zero, around the modulus
C2_Witness ==
    /\ Decoded
    /\ codec.P.q = codec.P.delta * codec.P.p
    /\ WithinBudget(codec.P, codec.noise)
    /\ codec.scaled + codec.noise < 0
    /\ codec.steps.m_rec = codec.m

(* C3: an ARLC instance exists only with parameters that satisfy            *)
(* q = delta*p, 0 < r_weight <= m and r_weight*eta < delta/2.               *)
C3_ParametersValidated == arlc # <<>> => ValidParams(arlc[1].params)

(* C4: an encrypt call whose plaintext holds a symbol outside [0, p) ends  *)
(* in an error and returns no ciphertext.                                    *)
C4_OutOfRangeRejected ==
    (/\ enc.status # "none"
     /\ ~InRange(arlc[1].params, enc.plaintext))
        => enc.status = "error" /\ enc.ciphertext = <<>>

\* the offending symbol came second: the first one had been encrypted
C4_Witness ==
    /\ enc.status = "error"
    /\ Len(enc.plaintext) >= 2
    /\ ~encode_raises(arlc[1].params, enc.plaintext[1])
    /\ encode_raises(arlc[1].params, enc.plaintext[2])
    /\ Len(enc.rs) = 1
    /\ enc.ciphertext = <<>>

(* C5: a decrypt call whose input holds a pair with a component of U, or   *)
(* V, outside [0, q) ends in an error and returns no plaintext.             *)
C5_MalformedRejected ==
    (/\ dec.status # "none"
     /\ \E i \in 1..Len(dec.input) : OutsideRing(arlc[1].params, dec.input[i]))
        => dec.status = "error" /\ dec.output = <<>>

(* C6: every sparse r is drawn from a state of the randomness source from  *)
(* which no r was drawn before.                                             *)
C6_FreshRandomness ==
    [][\A k \in pyRandom..(pyRandom' - 1) : k \notin usedStates]_vars

(* C7: encrypt returns one pair per plaintext symbol, the i-th pair made   *)
(* from the i-th symbol, and decrypt one character per pair, in order.      *)
C7_LengthAndOrder ==
    /\ enc.status = "ok" =>
          /\ Len(enc.ciphertext) = Len(enc.plaintext)
          /\ Len(enc.rs) = Len(enc.plaintext)
          /\ \A i \in 1..Len(enc.plaintext) :
                enc.ciphertext[i] =
                    SymbolCiphertext(arlc[1].params, arlc[1].A, keypair[1].b,
                        encode_message_symbol(arlc[1].params, enc.plaintext[i]),
                        enc.rs[i])
    /\ dec.status = "ok" =>
          /\ Len(dec.output) = Len(dec.input)
          /\ \A i \in 1..Len(dec.input) :
                dec.output[i] =
                    ToChar(decode_message_symbol(arlc[1].params,
                        RecoverScaled(arlc[1].params, dec.input[i], keypair[1].s)))

\* two different symbols went through encrypt and decrypt
C7_Witness ==
    /\ RoundTripDone
    /\ Len(enc.plaintext) = 2
    /\ enc.plaintext[1] # enc.plaintext[2]
    /\ Len(dec.output) = 2

(* C8: the value decrypt hands to the decoder for the i-th pair is          *)
(* (encode(m_i) + <r_i, e>) mod q.                                          *)
C8_DecryptionIdentity ==
    RoundTripDone =>
        /\ Len(dec.handed) = Len(enc.plaintext)
        /\ \A i \in 1..Len(enc.plaintext) :
              dec.handed[i] =
                  (encode_message_symbol(arlc[1].params, enc.plaintext[i])
                     + dot(enc.rs[i], keypair[1].e)) % arlc[1].params.q

\* a negative residual noise under a secret with a negative entry
C8_Witness ==
    /\ RoundTripDone
    /\ Len(enc.plaintext) >= 1
    /\ dot(enc.rs[1], keypair[1].e) < 0
    /\ \E j \in 1..Len(keypair[1].s) : keypair[1].s[j] < 0
    /\ dec.handed[1] # encode_message_symbol(arlc[1].params, enc.plaintext[1])

C10_PrintableRoundTrip ==
    (/\ RoundTripDone
     /\ ValidParams(arlc[1].params)
     /\ AllPrintable(enc.plaintext))
        => dec.output = enc.plaintext

\* 'A' and 'e-acute', whose encoding wraps around q, came back
C10_Witness ==
    /\ RoundTripDone
    /\ ValidParams(arlc[1].params)
    /\ Len(enc.plaintext) = 2
    /\ AllPrintable(enc.plaintext)
    /\ (enc.plaintext[2] + arlc[1].params.p \div 2) * arlc[1].params.delta
          >= arlc[1].params.q
    /\ dec.output = enc.plaintext

====
